---- MODULE Spec2Model ----
(***************************************************************************)
(* Model of the blog article CRUD stack: BlogController -> BlogService ->  *)
(* BlogRepository -> TypeORM Repository<Blog> -> the blog table.           *)
(*                                                                         *)
(* The table is a set of rows; the primary key and NOT NULL constraints    *)
(* are enforced by the statements, as the database does.  Every HTTP       *)
(* request issues one repository call; requests of different clients       *)
(* interleave at these calls, which is what the actions below are (save    *)
(* runs its statements in one transaction and is one step).  Timestamps    *)
(* are readings of the store's clock, which never goes back and need not   *)
(* advance between two statements.                                         *)
(***************************************************************************)
EXTENDS Integers, FiniteSets, Sequences, TLC

\* ---------------------------------------------------------------- bounds
MaxId == 2          \* ids range over 1..MaxId; the id sequence stops there
MaxTime == 1        \* the store clock ranges over 0..MaxTime

Ids == 1..MaxId
Times == 0..MaxTime
Names == {"a", "b"}

\* ---------------------------------------------------------------- values
\* SQL NULL in a timestamp column
NULL == 0 - 1

\* JavaScript null / undefined
Null == [type |-> "null"]
Undefined == [type |-> "undefined"]

\* `if (v)` in JavaScript: null and undefined are falsy, every object is truthy
Truthy(v) == v \notin {Null, Undefined}

\* a settled promise: fulfilled with a value, or rejected with a cause
Ok(v) == [kind |-> "ok", value |-> v]
Throw(c) == [kind |-> "throw", cause |-> c]

\* ---------------------------------------------------------------- entity
\* class Blog: the columns of the blog table
Blog == {"id", "name", "updated_at", "created_at", "deleted_at"}

EmptyBag == [c \in {} |-> 0]
Has(data, c) == c \in DOMAIN data

\* the bags of fields the repository is handed as `data`: an optional name,
\* and at most one other column of the entity (one soft-deletion time stands
\* for all of them)
NameBags == {EmptyBag} \cup {[name |-> n] : n \in Names}
ExtraBags == {EmptyBag} \cup {[id |-> i] : i \in Ids}
               \cup {[created_at |-> t] : t \in Times}
               \cup {[updated_at |-> t] : t \in Times}
               \cup {[deleted_at |-> 0]}
Bags == {n @@ e : n \in NameBags, e \in ExtraBags}

VARIABLES rows, seq, now, resp, hist, ds
vars == <<rows, seq, now, resp, hist, ds>>

\* ---------------------------------------------------------------- store
\* the result of one statement: the promise's outcome, the table and the
\* id sequence after it
Step(o, t, s) == [out |-> o, rows |-> t, seq |-> s]

\* DeleteResult / UpdateResult of TypeORM: objects carrying the affected count
DeleteResult(n) == [type |-> "object", raw |-> <<>>, affected |-> n]
UpdateResult(n) == [type |-> "object", raw |-> <<>>, generatedMaps |-> <<>>, affected |-> n]

Matching(table, id) == {r \in table : r.id = id}

\* Repository.find(): an entity with a @DeleteDateColumn is read without its
\* soft-deleted rows
Find(table) == {r \in table : r.deleted_at = NULL}

\* findOne with its where clause dropped: the first row whatever its id
FindOne_anyRow(table, id) ==
    IF Find(table) = {} THEN Null
    ELSE CHOOSE r \in Find(table) : TRUE

\* Repository.findOne({where: {id}}): the row or null
FindOne(table, id) ==
    IF Matching(Find(table), id) = {} THEN Null
    ELSE CHOOSE r \in Matching(Find(table), id) : TRUE

\* Repository.create(data): an entity carrying the columns present in data
Create(data) == [c \in (DOMAIN data) \cap Blog |-> data[c]]

\* INSERT of an entity: a missing id is drawn from the sequence, missing
\* timestamps default to now(), a missing deleted_at to NULL
InsertRow(entity, id, clock) ==
    [id |-> id,
     name |-> entity.name,
     updated_at |-> IF Has(entity, "updated_at") THEN entity.updated_at ELSE clock,
     created_at |-> IF Has(entity, "created_at") THEN entity.created_at ELSE clock,
     deleted_at |-> IF Has(entity, "deleted_at") THEN entity.deleted_at ELSE NULL]

\* INSERT INTO blog: nextval is taken even when the row is then rejected
Insert(table, s, clock, entity) ==
    LET id == IF Has(entity, "id") THEN entity.id ELSE s + 1
        s2 == IF Has(entity, "id") THEN s ELSE s + 1
    IN  IF ~Has(entity, "name") THEN Step(Throw("NotNullViolation"), table, s2)
        ELSE IF Matching(table, id) # {} THEN Step(Throw("UniqueViolation"), table, s2)
        ELSE Step(Ok(InsertRow(entity, id, clock)),
                  table \cup {InsertRow(entity, id, clock)}, s2)

\* the update with updated_at declared as a plain column: it is left as it was
SetColumns_plainColumn(r, data, clock) ==
    [c \in Blog |-> IF Has(data, c) THEN data[c] ELSE r[c]]

\* UPDATE ... SET <the given columns> WHERE id = <id>: updated_at is set to
\* CURRENT_TIMESTAMP unless it is among the given columns
SetColumns(r, data, clock) ==
    [c \in Blog |-> IF Has(data, c) THEN data[c]
                    ELSE IF c = "updated_at" THEN clock
                    ELSE r[c]]

\* Repository.save(entity) of an entity whose id is already in the table:
\* the columns that differ are written, and the entity is handed back
SaveExisting(table, s, clock, entity) ==
    LET old == CHOOSE r \in Matching(table, entity.id) : TRUE
        diff == [c \in {c \in DOMAIN entity : entity[c] # old[c]} |-> entity[c]]
        new == SetColumns(old, diff, clock)
    IN  IF DOMAIN diff = {} THEN Step(Ok(entity), table, s)
        ELSE Step(Ok(entity @@ [updated_at |-> new.updated_at]),
                  (table \ {old}) \cup {new}, s)

\* Repository.save(entity)
Save(table, s, clock, entity) ==
    IF Has(entity, "id") /\ Matching(table, entity.id) # {}
    THEN SaveExisting(table, s, clock, entity)
    ELSE Insert(table, s, clock, entity)

\* an update that rejects when no row has the id
Update_orFail(table, s, clock, id, data) ==
    LET hit == Matching(table, id)
        rest == table \ hit
    IN  IF hit = {} THEN Step(Throw("EntityNotFound"), table, s)
        ELSE IF Has(data, "id") /\ Matching(rest, data.id) # {}
             THEN Step(Throw("UniqueViolation"), table, s)
        ELSE Step(Ok(UpdateResult(Cardinality(hit))),
                  rest \cup {SetColumns(r, data, clock) : r \in hit}, s)

\* Repository.update({id}, data)
Update(table, s, clock, id, data) ==
    LET hit == Matching(table, id)
        rest == table \ hit
    IN  IF hit = {} THEN Step(Ok(UpdateResult(0)), table, s)
        ELSE IF Has(data, "id") /\ Matching(rest, data.id) # {}
             THEN Step(Throw("UniqueViolation"), table, s)
        ELSE Step(Ok(UpdateResult(Cardinality(hit))),
                  rest \cup {SetColumns(r, data, clock) : r \in hit}, s)

\* Repository.delete({id})
Delete(table, s, id) ==
    Step(Ok(DeleteResult(Cardinality(Matching(table, id)))),
         table \ Matching(table, id), s)

\* a statement that the store cannot serve (connection lost) rejects and
\* leaves the table as it is
Lost(table, s) == Step(Throw("ConnectionLost"), table, s)

\* ---------------------------------------------------------------- BlogRepository
Repo_getArticles(table, s, fail) ==
    IF fail THEN Lost(table, s) ELSE Step(Ok(Find(table)), table, s)

Repo_getArticleById(table, s, blogid, fail) ==
    IF fail THEN Lost(table, s) ELSE Step(Ok(FindOne(table, blogid)), table, s)

Repo_postArticle(table, s, clock, data, fail) ==
    IF fail THEN Lost(table, s) ELSE Save(table, s, clock, Create(data))

Repo_deleteArticle(table, s, articleid, fail) ==
    IF fail THEN Lost(table, s) ELSE Delete(table, s, articleid)

Repo_updateArticle(table, s, clock, articleId, data, fail) ==
    IF fail THEN Lost(table, s) ELSE Update(table, s, clock, articleId, data)

\* ---------------------------------------------------------------- BlogService
\* each method gets the outcome of its repository call
Service_getArticles(o) == o

Service_postArticle(o) == o

Service_getArticlebyID(o) == o

\* the delete with the rejection caught and answered as a failure envelope
Service_deleteArticlebyId_caught(o) ==
    IF o.kind = "throw" THEN Ok([success |-> FALSE])
    ELSE IF Truthy(o.value) THEN Ok([success |-> TRUE])
    ELSE Ok(Undefined)

Service_deleteArticlebyId(o) ==
    IF o.kind = "throw" THEN o
    ELSE IF Truthy(o.value) THEN Ok([success |-> TRUE])
    ELSE Ok(Undefined)

Service_updateArticlebyId(o) == o

\* ---------------------------------------------------------------- BlogController
\* each handler gets the outcome of its service call
Controller_getArticles(o) ==
    IF o.kind = "throw" THEN o ELSE Ok([success |-> TRUE, Articles |-> o.value])

Controller_getSingleArticle(o) ==
    IF o.kind = "throw" THEN o ELSE Ok([success |-> TRUE, article |-> o.value])

Controller_postArticle(o) ==
    IF o.kind = "throw" THEN o ELSE Ok([success |-> TRUE, response |-> o.value])

Controller_deleteArticle(o) == o

Controller_updateArticle(o) ==
    IF o.kind = "throw" THEN o
    ELSE IF Truthy(o.value) THEN Ok([success |-> TRUE])
    ELSE Ok(Undefined)

\* ---------------------------------------------------------------- BaseRepository
\* an EntityManager: the data source's own, or the one of a caller's transaction
EntityManager(name) == [type |-> "object", name |-> name]

\* the DataSource the repository is constructed with: initialized at start-up,
\* with its own manager and the connections it holds open
DataSource ==
    [type |-> "object", isInitialized |-> TRUE, manager |-> EntityManager("default"),
     open |-> 0]

\* what a caller passes as entityManager: nothing, null, or a transaction's manager
Managers == {Undefined, Null, EntityManager("tx1"), EntityManager("tx2")}
Targets == {"Blog", "Other"}

\* EntityManager.getRepository(target): the store handle of target, bound to
\* the manager
Manager_getRepository(manager, target) ==
    [type |-> "object", target |-> target, manager |-> manager]

\* the resolution with the caller's manager overlooked
getEntityManager_default(datasource, entityManager) == datasource.manager

getEntityManager(datasource, entityManager) ==
    IF Truthy(entityManager) THEN entityManager ELSE datasource.manager

getRepository(datasource, entityTarget, entityManager) ==
    Manager_getRepository(getEntityManager(datasource, entityManager), entityTarget)

\* ---------------------------------------------------------------- requests
\* the last request served: the handler, its id parameter (0: none), the
\* repository calls it made, and the outcome at each layer
Response(op, id, calls, repo, service, http) ==
    [op |-> op, id |-> id, calls |-> calls, repo |-> repo, service |-> service, http |-> http]

\* what became of each id that is followed: never returned by a create,
\* returned and not deleted since ("live"), or returned and then deleted ("gone")
Created(h, o) ==
    IF o.kind = "ok" /\ o.value.id \in DOMAIN h /\ h[o.value.id] = "never"
    THEN [h EXCEPT ![o.value.id] = "live"]
    ELSE h

Deleted(h, id, o) ==
    IF o.kind = "ok" /\ o.value.affected > 0 /\ id \in DOMAIN h /\ h[id] = "live"
    THEN [h EXCEPT ![id] = "gone"]
    ELSE h

Init ==
    /\ rows = {}
    /\ seq = 0
    /\ now = 0
    /\ resp = Response("none", 0, 0, Ok(Undefined), Ok(Undefined), Ok(Undefined))
    /\ hist = [i \in {} |-> "never"]
    /\ ds = DataSource

\* the same start, with the ids of Followed followed through their life
Followed == Ids

InitHist ==
    /\ rows = {}
    /\ seq = 0
    /\ now = 0
    /\ resp = Response("none", 0, 0, Ok(Undefined), Ok(Undefined), Ok(Undefined))
    /\ hist = [i \in Followed |-> "never"]
    /\ ds = DataSource

\* GET /blog
getArticles(fail) ==
    \E st \in {Repo_getArticles(rows, seq, fail)} :
      \E sv \in {Service_getArticles(st.out)} :
        /\ resp' = Response("getArticles", 0, 1, st.out, sv, Controller_getArticles(sv))
        /\ rows' = st.rows
        /\ seq' = st.seq
        /\ UNCHANGED <<now, hist, ds>>

\* GET /blog/:id
getSingleArticle(id, fail) ==
    \E st \in {Repo_getArticleById(rows, seq, id, fail)} :
      \E sv \in {Service_getArticlebyID(st.out)} :
        /\ resp' = Response("getSingleArticle", id, 1, st.out, sv,
                            Controller_getSingleArticle(sv))
        /\ rows' = st.rows
        /\ seq' = st.seq
        /\ UNCHANGED <<now, hist, ds>>

\* POST /blog (the id sequence is capped at MaxId)
postArticle(data, fail) ==
    /\ fail \/ Has(data, "id") \/ seq < MaxId
    /\ \E st \in {Repo_postArticle(rows, seq, now, data, fail)} :
         \E sv \in {Service_postArticle(st.out)} :
           /\ resp' = Response("postArticle", 0, 1, st.out, sv, Controller_postArticle(sv))
           /\ rows' = st.rows
           /\ seq' = st.seq
           /\ hist' = Created(hist, st.out)
           /\ UNCHANGED <<now, ds>>

\* DELETE /blog/:id
deleteArticle(id, fail) ==
    \E st \in {Repo_deleteArticle(rows, seq, id, fail)} :
      \E sv \in {Service_deleteArticlebyId(st.out)} :
        /\ resp' = Response("deleteArticle", id, 1, st.out, sv, Controller_deleteArticle(sv))
        /\ rows' = st.rows
        /\ seq' = st.seq
        /\ hist' = Deleted(hist, id, st.out)
        /\ UNCHANGED <<now, ds>>

\* PATCH /blog/:id
updateArticle(id, data, fail) ==
    \E st \in {Repo_updateArticle(rows, seq, now, id, data, fail)} :
      \E sv \in {Service_updateArticlebyId(st.out)} :
        /\ resp' = Response("updateArticle", id, 1, st.out, sv, Controller_updateArticle(sv))
        /\ rows' = st.rows
        /\ seq' = st.seq
        /\ UNCHANGED <<now, hist, ds>>

\* the store's clock advances
Tick ==
    /\ now < MaxTime
    /\ now' = now + 1
    /\ UNCHANGED <<rows, seq, resp, hist, ds>>

\* a request whose statement the store cannot serve ends the same way whatever
\* its body is: one body stands for all of them
Next ==
    \/ Tick
    \/ \E fail \in BOOLEAN : getArticles(fail)
    \/ \E id \in Ids, fail \in BOOLEAN : getSingleArticle(id, fail)
    \/ \E data \in Bags : postArticle(data, FALSE)
    \/ postArticle(EmptyBag, TRUE)
    \/ \E id \in Ids, fail \in BOOLEAN : deleteArticle(id, fail)
    \/ \E id \in Ids, data \in Bags : updateArticle(id, data, FALSE)
    \/ \E id \in Ids : updateArticle(id, EmptyBag, TRUE)

Spec == Init /\ [][Next]_vars

\* a repository built on BaseRepository resolves its store handle
ResolveStore(entityTarget, entityManager) ==
    /\ resp' = [op |-> "getRepository", id |-> 0, calls |-> 0,
                target |-> entityTarget, given |-> entityManager,
                handle |-> getRepository(ds, entityTarget, entityManager)]
    /\ UNCHANGED <<rows, seq, now, hist, ds>>

NextBase ==
    \/ Next
    \/ \E entityTarget \in Targets, entityManager \in Managers :
          ResolveStore(entityTarget, entityManager)

SpecBase == Init /\ [][NextBase]_vars

SpecHist == InitHist /\ [][Next]_vars

\* ---------------------------------------------------------------- properties
\* a step that serves a request (every step but Tick leaves the clock alone)
Served(op) == now' = now /\ resp'.op = op

\* get_article(id) as a caller of the service sees it, in a given table
GetArticle(table, s, id) ==
    Service_getArticlebyID(Repo_getArticleById(table, s, id, FALSE).out)

\* C1: create_article(f) with a valid field set f (a name and nothing else)
\* that returns a record, followed at once by get_article of the returned id,
\* yields that same record: its name is the one of f, and its id, created_at
\* and updated_at are present and non-null.
C1_CreateThenGet ==
    [][\A n \in Names :
         (postArticle([name |-> n], FALSE) /\ resp'.service.kind = "ok") =>
             LET created == resp'.service.value
             IN  /\ GetArticle(rows', seq', created.id) = Ok(created)
                 /\ created.name = n
                 /\ created.id \in Ids
                 /\ created.created_at \in Times
                 /\ created.updated_at \in Times]_vars

\* a create has just returned the second record of the table, with
\* server-assigned id and timestamps
C1_Witness ==
    /\ resp.op = "postArticle"
    /\ resp.service.kind = "ok"
    /\ resp.service.value \in rows
    /\ resp.service.value.id = seq
    /\ resp.service.value.created_at = now
    /\ resp.service.value.deleted_at = NULL
    /\ Cardinality(Find(rows)) = 2

\* C2: a create_article that returns adds exactly one record to the store;
\* its id is assigned by the system (drawn from the id sequence) and was the
\* id of no record before the call; its created_at equals its updated_at; and
\* every record that was there before is unchanged, whatever the field set.
C2_CreateAddsOneRecord ==
    [][(Served("postArticle") /\ resp'.repo.kind = "ok") =>
         \E r \in rows' :
             /\ r \notin rows
             /\ rows' = rows \cup {r}
             /\ seq' = seq + 1
             /\ r.id = seq'
             /\ Matching(rows, r.id) = {}
             /\ r.created_at = r.updated_at]_vars

\* C3: once update_article(i, {name: X}) was applied to an existing record i,
\* get_article(i) returns a record named X whose updated_at is strictly
\* greater than it was before the update.
C3_UpdatedAtStrictlyGreater ==
    [][\A i \in Ids, X \in Names :
         (updateArticle(i, [name |-> X], FALSE) /\ Matching(rows, i) # {}) =>
             LET got == GetArticle(rows', seq', i)
             IN  /\ got.kind = "ok"
                 /\ got.value # Null
                 /\ got.value.name = X
                 /\ \A r \in Matching(rows, i) : got.value.updated_at > r.updated_at]_vars

\* C3, as amended: once update_article(i, {name: X}) was applied to a record i
\* that get_article returns (one that exists and is not soft-deleted),
\* get_article(i) returns a record named X whose updated_at is the reading of
\* the store's clock at the update; that is strictly greater than the value
\* before only if the clock has advanced beyond that value.
C3_UpdatedAtIsClock ==
    [][\A i \in Ids, X \in Names :
         (updateArticle(i, [name |-> X], FALSE) /\ FindOne(rows, i) # Null) =>
             LET got == GetArticle(rows', seq', i)
             IN  /\ got.kind = "ok"
                 /\ got.value # Null
                 /\ got.value.name = X
                 /\ got.value.updated_at = now
                 /\ \A r \in Matching(rows, i) :
                        r.updated_at < now => got.value.updated_at > r.updated_at]_vars

\* an update has just refreshed updated_at of a live record created at an
\* earlier reading of the clock
C3_Witness ==
    /\ resp.op = "updateArticle"
    /\ resp.repo = Ok(UpdateResult(1))
    /\ FindOne(rows, resp.id) # Null
    /\ FindOne(rows, resp.id).updated_at = now
    /\ FindOne(rows, resp.id).created_at < now
    /\ FindOne(rows, resp.id).name = "b"

C5_NotFoundIsNoError ==
    [][(/\ now' = now
        /\ resp'.op \in {"getSingleArticle", "deleteArticle", "updateArticle"}
        /\ Matching(rows, resp'.id) = {}) =>
           /\ rows' = rows
           /\ resp'.repo.kind = "throw" => resp'.repo.cause = "ConnectionLost"
           /\ resp'.repo.kind = "ok" =>
                resp'.repo.value = CASE resp'.op = "getSingleArticle" -> Null
                                     [] resp'.op = "deleteArticle" -> DeleteResult(0)
                                     [] resp'.op = "updateArticle" -> UpdateResult(0)]_vars

\* an update of an id that matches no record has just reported zero affected
\* rows, in a store that holds another record
C5_Witness ==
    /\ resp.op = "updateArticle"
    /\ resp.repo = Ok(UpdateResult(0))
    /\ Matching(rows, resp.id) = {}
    /\ rows # {}

\* C6: the service's delete returns {success: true} when the repository's
\* delete affected more than 0 rows, and undefined otherwise; a delete of an
\* id that matches no record does not return {success: true}.
C6_DeleteEnvelope ==
    (resp.op = "deleteArticle" /\ resp.repo.kind = "ok") =>
        resp.service = IF resp.repo.value.affected > 0
                       THEN Ok([success |-> TRUE])
                       ELSE Ok(Undefined)

\* C7: in every reachable state no two records share an id, and every record
\* has created_at <= updated_at.
C7_UniqueIdsOrderedTimestamps ==
    /\ \A r, q \in rows : r.id = q.id => r = q
    /\ \A r \in rows : r.created_at <= r.updated_at

\* C8: an update_article(i, partial_fields), whatever the partial field set,
\* leaves every record, the one identified by i included, with the id and the
\* created_at it had before the call.
C8_UpdateKeepsIdAndCreatedAt ==
    [][Served("updateArticle") =>
         /\ \A r \in rows : \E q \in rows' : q.id = r.id /\ q.created_at = r.created_at
         /\ \A q \in rows' : \E r \in rows : q.id = r.id /\ q.created_at = r.created_at]_vars

\* C9: when N distinct records were created and none of them was deleted,
\* list_articles() returns at least N records, every created one among them.
C9_ListContainsCreated ==
    LET created == {i \in DOMAIN hist : hist[i] # "never"}
        list == Service_getArticles(Repo_getArticles(rows, seq, FALSE).out).value
    IN  (\A i \in created : hist[i] = "live") =>
            /\ Cardinality(list) >= Cardinality(created)
            /\ \A i \in created : \E r \in list : r.id = i

\* C10: a failure of the store in a repository call reaches the HTTP layer as
\* it is: the service and the controller hand on the very rejection of the
\* repository, the handler made its one repository call and no other, and
\* no success envelope answers the request.
C10_FailurePropagates ==
    resp.repo.kind = "throw" =>
        /\ resp.service = resp.repo
        /\ resp.http = resp.repo
        /\ resp.calls = 1

\* a delete has just been rejected by the store
C10_Witness ==
    /\ resp.op = "deleteArticle"
    /\ resp.repo = Throw("ConnectionLost")
    /\ rows # {}

\* C11: getRepository returns the store handle of the entity obtained from the
\* caller's transaction manager whenever one is supplied, and the one obtained
\* from the data source's own manager otherwise; it changes nothing: no
\* record, no sequence or clock, and the data source keeps its connections as
\* they were.
C11_ResolveStore ==
    [][Served("getRepository") =>
         /\ resp'.handle =
              Manager_getRepository(IF resp'.given \in {EntityManager("tx1"),
                                                        EntityManager("tx2")}
                                    THEN resp'.given
                                    ELSE ds.manager,
                                    resp'.target)
         /\ UNCHANGED <<rows, seq, now, hist, ds>>]_vars

\* a handle has just been resolved from a caller's transaction manager, over a
\* store that holds records
C11_Witness ==
    /\ resp.op = "getRepository"
    /\ resp.given = EntityManager("tx1")
    /\ resp.handle = Manager_getRepository(EntityManager("tx1"), "Blog")
    /\ ds = DataSource
    /\ rows # {}
====
